---- MODULE Spec2Model ----
(***************************************************************************)
(* rtest: watch a directory tree and re-run `go test` in the directory of  *)
(* a changed file (src/main.go).                                           *)
(*                                                                         *)
(* A file name is the sequence of its dot-separated parts ("x.go" is       *)
(* <<"x", "go">>), a path the sequence of its names below "/".  The file   *)
(* system and the watch mechanism (fsnotify) are the environment of the    *)
(* program: a watch is not recursive, it reports the changes of the        *)
(* entries directly inside the watched directory, and it ends when the     *)
(* watched directory is removed.  Times are in milliseconds.               *)
(***************************************************************************)
EXTENDS Integers, Sequences, FiniteSets, TLC

\* ------------------------------------------------------------------ bounds
MaxFsOps == 2
MaxEvOps == 3
MaxTicks == 2
MaxLines == 2

\* ----------------------------------------------------------- names, paths
nProj   == <<"proj">>
nA      == <<"a">>
nB      == <<"b">>
nPkg    == <<"pkg">>
nVendor == <<"vendor">>
nXGo    == <<"x", "go">>
nTxt    == <<"n", "txt">>
nYGo    == <<"y", "go">>

\* the names in the lexical order of their strings, the order filepath.Walk visits
NameOrder == <<nA, nB, nTxt, nPkg, nVendor, nXGo, nYGo>>

wd      == <<nProj>>
pA      == <<nProj, nA>>
pB      == <<nProj, nA, nB>>
pVendor == <<nProj, nVendor>>
pPkg    == <<nProj, nVendor, nPkg>>
pXGo    == <<nProj, nA, nXGo>>
pTxt    == <<nProj, nA, nTxt>>
pYGo    == <<nProj, nVendor, nPkg, nYGo>>

DirPaths  == {wd, pA, pB, pVendor, pPkg}
FilePaths == {pXGo, pTxt, pYGo}
AllPaths  == DirPaths \cup FilePaths

\* filepath.Base, filepath.Dir and filepath.Ext on a clean absolute path
Base(path) == path[Len(path)]
Dir(path)  == SubSeq(path, 1, Len(path) - 1)
Ext(name)  == IF Len(name) > 1 THEN <<".", name[Len(name)]>> ELSE <<>>
GoExt      == <<".", "go">>

\* os.FileInfo.IsDir of an entry of the tree
IsDir(path) == path \in DirPaths

\* the trees the program is started on
InitialTrees ==
    { {wd},
      {wd, pA, pXGo, pTxt, pVendor, pPkg, pYGo} }

\* the command lines the program is started with: flag.Args() and -rtest-debug
CmdLines == { [args |-> <<>>, debug |-> FALSE],
              [args |-> <<"-v", "-race">>, debug |-> TRUE] }

\* 800 in `elapsed < 800`, and the step of the model's clock
Threshold == 800
TickStep  == Threshold \div 2

\* what the operator may type before Enter
LineChoices == {"", "x.go"}

VARIABLES
    tree,        \* the entries of the file system below and including wd
    otherArgs,   \* flag.Args()
    flagDebug,   \* *flagDebug
    pcMain,      \* main: "start", "running", "exited"
    exitCode,    \* the exit status of the process, -1 while it runs
    WatchSet,    \* the paths the program has added to the watcher
    live,        \* the directories with a working watch
    events,      \* watcher.Events: the raw events not yet read
    throttle,    \* handleEvents' throttle map
    pcEv,        \* handleEvents: "off", "select", "run" (inside cmd.Run), "done"
    evErr,       \* what handleEvents returned ("none" while it has not returned)
    pcEnter,     \* handleEnter: "off", "scan", "run" (inside cmd.Run), "done"
    enterErr,    \* handleEnter's err: what the last runTestsForDir returned ("none" before)
    now,         \* time.Now()
    stderr,      \* what has been written to os.Stderr
    handled,     \* history: the events read, each with the time it was read and the verdict
    runs,        \* history: the `go test` commands run by handleEvents
    manual,      \* history: the `go test` commands run by handleEnter
    fsOps,       \* number of changes made to the tree so far
    lines        \* number of lines read from os.Stdin so far

vars == <<tree, otherArgs, flagDebug, pcMain, exitCode, WatchSet, live, events,
          throttle, pcEv, evErr, pcEnter, enterErr, now, stderr, handled, runs, manual,
          fsOps, lines>>

envVars  == <<tree, live, events, fsOps>>
confVars == <<otherArgs, flagDebug>>

\* debugln: writes only with -rtest-debug
debugln(out, msg) == IF flagDebug THEN out \cup {msg} ELSE out

\* ------------------------------------------------------------ initWatches
\* the entries of directory path, in the order filepath.Walk visits them
Children(tr, path) == { p \in tr : Len(p) = Len(path) + 1 /\ Dir(p) = path }

RECURSIVE SortedFrom(_, _)
SortedFrom(set, i) ==
    IF i > Len(NameOrder) THEN <<>>
    ELSE LET here == { p \in set : Base(p) = NameOrder[i] }
         IN  (IF here = {} THEN <<>> ELSE <<CHOOSE p \in here : TRUE>>)
             \o SortedFrom(set, i + 1)

\* a walk function without the test of the name vendor
WalkFnVendorToo(path, refused, st) ==
    IF path \in refused
    THEN [st EXCEPT !.err = "failed to add watch to %s"]
    ELSE [st EXCEPT !.watched = @ \cup {path},
                    !.out = debugln(@, <<"Adding watch:", path>>)]

\* the function initWatches gives to filepath.Walk, called for a directory that
\* could be inspected: st is what the walk has done so far
WalkFn(path, refused, st) ==
    IF Base(path) = nVendor THEN st
    ELSE IF path \in refused
         THEN [st EXCEPT !.err = "failed to add watch to %s"]
         ELSE [st EXCEPT !.watched = @ \cup {path},
                         !.out = debugln(@, <<"Adding watch:", path>>)]

\* filepath.Walk: a file is visited and skipped, a directory is visited and then
\* listed; the first error ends the walk
RECURSIVE Walk(_, _, _, _, _)
RECURSIVE WalkAll(_, _, _, _, _)
Walk(path, tr, unlistable, refused, st) ==
    IF st.err # "nil" THEN st
    ELSE IF ~IsDir(path) THEN st
    ELSE LET st1 == WalkFn(path, refused, st)
         IN  IF st1.err # "nil" THEN st1
             ELSE IF path \in unlistable
                  THEN [st1 EXCEPT !.err = "error occurred while walking"]
                  ELSE WalkAll(SortedFrom(Children(tr, path), 1), tr, unlistable, refused, st1)

WalkAll(paths, tr, unlistable, refused, st) ==
    IF paths = <<>> THEN st
    ELSE WalkAll(Tail(paths), tr, unlistable, refused,
                 Walk(Head(paths), tr, unlistable, refused, st))

initWatches(tr, unlistable, refused) ==
    Walk(wd, tr, unlistable, refused, [watched |-> {}, err |-> "nil", out |-> {}])

\* what can go wrong at startup: at most one directory that cannot be listed or
\* that the watcher refuses
Faults(tr) ==
    {<<{}, {}>>} \cup { <<{d}, {}>> : d \in tr \cap DirPaths }
                 \cup { <<{}, {d}>> : d \in tr \cap DirPaths }

Init ==
    /\ tree \in InitialTrees
    /\ \E c \in CmdLines : otherArgs = c.args /\ flagDebug = c.debug
    /\ pcMain = "start"
    /\ exitCode = -1
    /\ WatchSet = {}
    /\ live = {}
    /\ events = <<>>
    /\ throttle = [k \in {} |-> 0]
    /\ pcEv = "off"
    /\ evErr = "none"
    /\ pcEnter = "off"
    /\ enterErr = "none"
    /\ now = 0
    /\ stderr = {}
    /\ handled = <<>>
    /\ runs = <<>>
    /\ manual = <<>>
    /\ fsOps = 0
    /\ lines = 0

\* a main that prints the error of initWatches and starts the loops all the same
StartupPartial ==
    /\ pcMain = "start"
    /\ \E f \in Faults(tree) :
         LET r == initWatches(tree, f[1], f[2])
         IN  /\ pcMain' = "running"
             /\ WatchSet' = r.watched
             /\ live' = r.watched
             /\ pcEv' = "select"
             /\ pcEnter' = "scan"
             /\ stderr' = IF r.err = "nil" THEN stderr \cup r.out
                          ELSE stderr \cup r.out \cup {<<r.err>>}
             /\ UNCHANGED exitCode
    /\ UNCHANGED <<tree, events, fsOps, confVars, throttle, evErr, enterErr, now, handled,
                   runs, manual, lines>>

\* main up to the two go statements: initWatches, then exit 1 or start the loops
Startup ==
    /\ pcMain = "start"
    /\ \E f \in Faults(tree) :
         LET r == initWatches(tree, f[1], f[2])
         IN  IF r.err = "nil"
             THEN /\ pcMain' = "running"
                  /\ WatchSet' = r.watched
                  /\ live' = r.watched
                  /\ pcEv' = "select"
                  /\ pcEnter' = "scan"
                  /\ stderr' = stderr \cup r.out
                  /\ UNCHANGED exitCode
             ELSE /\ pcMain' = "exited"
                  /\ exitCode' = 1
                  /\ stderr' = stderr \cup r.out \cup {<<r.err>>}
                  /\ UNCHANGED <<WatchSet, live, pcEv, pcEnter>>
    /\ UNCHANGED <<tree, events, fsOps, confVars, throttle, evErr, enterErr, now, handled,
                   runs, manual, lines>>

\* --------------------------------------------------- the watch mechanism
RawEvent(path, op) == [Name |-> path, Op |-> op, at |-> now]

\* a change of path is reported when the directory holding it has a working watch
Post(path, op) ==
    IF Dir(path) \in live THEN Append(events, RawEvent(path, op)) ELSE events

FsCreate(path, max) ==
    /\ pcMain = "running" /\ fsOps < max
    /\ path \notin tree /\ Dir(path) \in tree
    /\ tree' = tree \cup {path}
    /\ events' = Post(path, "CREATE")
    /\ fsOps' = fsOps + 1
    /\ UNCHANGED <<live, confVars, pcMain, exitCode, WatchSet, throttle, pcEv, evErr,
                   pcEnter, enterErr, now, stderr, handled, runs, manual, lines>>

FsWrite(path, max) ==
    /\ pcMain = "running" /\ fsOps < max
    /\ path \in tree /\ ~IsDir(path)
    /\ events' = Post(path, "WRITE")
    /\ fsOps' = fsOps + 1
    /\ UNCHANGED <<tree, live, confVars, pcMain, exitCode, WatchSet, throttle, pcEv,
                   evErr, pcEnter, enterErr, now, stderr, handled, runs, manual, lines>>

\* rm, or mv out of the tree; the watch of a removed directory ends with it
FsRemove(path, op, max) ==
    /\ pcMain = "running" /\ fsOps < max
    /\ path \in tree /\ path # wd /\ Children(tree, path) = {}
    /\ op = "RENAME" => ~IsDir(path)
    /\ tree' = tree \ {path}
    /\ live' = live \ {path}
    /\ events' = Post(path, op)
    /\ fsOps' = fsOps + 1
    /\ UNCHANGED <<confVars, pcMain, exitCode, WatchSet, throttle, pcEv, evErr,
                   pcEnter, enterErr, now, stderr, handled, runs, manual, lines>>

FsChmod(path, max) ==
    /\ pcMain = "running" /\ fsOps < max
    /\ path \in tree /\ ~IsDir(path)
    /\ events' = Post(path, "CHMOD")
    /\ fsOps' = fsOps + 1
    /\ UNCHANGED <<tree, live, confVars, pcMain, exitCode, WatchSet, throttle, pcEv,
                   evErr, pcEnter, enterErr, now, stderr, handled, runs, manual, lines>>

\* the clock advances; a goroutine that can run does so well within one step of
\* the clock, so an event waits only while handleEvents is inside a test run
Tick ==
    /\ pcMain = "running" /\ now < MaxTicks * TickStep
    /\ ~(pcEv = "select" /\ events # <<>>)
    /\ now' = now + TickStep
    /\ UNCHANGED <<envVars, confVars, pcMain, exitCode, WatchSet, throttle, pcEv, evErr,
                   pcEnter, enterErr, stderr, handled, runs, manual, lines>>

\* ---------------------------------------------------------- the test run
\* a runGoTest that forgets flag.Args()
GoTestArgsBare == <<"test">>

\* runGoTest: the command line of `go`, and the directory it runs in
GoTestArgs == <<"test">> \o otherArgs
GoTest(dir) == [dir |-> dir, args |-> GoTestArgs]

\* what cmd.Run returns for a process that started and exited with code
RunResult(code) == IF code = 0 THEN "nil" ELSE "exit status"

\* a runTestsForFile without the test of the extension
runTestsForAnyFile(file) == [act |-> "test", dir |-> Dir(file)]

\* runTestsForFile, up to the call of runGoTest
runTestsForFile(file) ==
    IF Ext(Base(file)) # GoExt
    THEN [act |-> "nil"]
    ELSE [act |-> "test", dir |-> Dir(file)]

\* -------------------------------------------------------------- handleEvents
\* a key without the operation
KeyPathOnly(ev) == ev.Name

\* ev.Name + ":" + ev.Op.String()
Key(ev) == ev.Name \o <<":", ev.Op>>

\* debounce tests with the comparison inverted, and with 800 ms still dropped
ThrottledInverted(t, key, tnow) ==
    /\ key \in DOMAIN t
    /\ tnow - t[key] > Threshold

ThrottledAtBoundary(t, key, tnow) ==
    /\ key \in DOMAIN t
    /\ tnow - t[key] <= Threshold

\* a debounce test with a window of twice the length
ThrottledWide(t, key, tnow) ==
    /\ key \in DOMAIN t
    /\ tnow - t[key] < 2 * Threshold

\* the debounce test of handleEvents
Throttled(t, key, tnow) ==
    /\ key \in DOMAIN t
    /\ tnow - t[key] < Threshold

\* a map that keeps only the key written last
StampAlone(t, key, tnow) == [k \in {key} |-> tnow]

\* throttle[key] = now
Stamp(t, key, tnow) ==
    [k \in DOMAIN t \cup {key} |-> IF k = key THEN tnow ELSE t[k]]

\* a handleEvent that ignores the error of os.Stat
handleEventIgnoreStat(ev, tr, addOk) ==
    IF ev.Op = "CREATE"
    THEN IF Base(ev.Name) = nVendor \/ ev.Name \notin tr THEN [act |-> "nil"]
         ELSE IF ~IsDir(ev.Name) THEN runTestsForFile(ev.Name)
              ELSE IF addOk THEN [act |-> "add", path |-> ev.Name]
                   ELSE [act |-> "err", err |-> "error removing watch on"]
    ELSE IF ev.Op = "WRITE" THEN runTestsForFile(ev.Name)
         ELSE [act |-> "nil"]

\* a handleEvent that runs the tests of a removed or renamed file as well
handleEventTestsOnRemove(ev, tr, addOk) ==
    IF ev.Op = "CREATE"
    THEN IF Base(ev.Name) = nVendor THEN [act |-> "nil"]
         ELSE IF ev.Name \notin tr
              THEN [act |-> "err", err |-> "failed to stat newly created file"]
              ELSE IF ~IsDir(ev.Name) THEN runTestsForFile(ev.Name)
                   ELSE IF addOk THEN [act |-> "add", path |-> ev.Name]
                        ELSE [act |-> "err", err |-> "error removing watch on"]
    ELSE IF ev.Op \in {"WRITE", "REMOVE", "RENAME"} THEN runTestsForFile(ev.Name)
         ELSE [act |-> "nil"]

\* a handleEvent that calls os.Stat before it looks at the name
handleEventStatFirst(ev, tr, addOk) ==
    IF ev.Op = "CREATE"
    THEN IF ev.Name \notin tr
         THEN [act |-> "err", err |-> "failed to stat newly created file"]
         ELSE IF Base(ev.Name) = nVendor THEN [act |-> "nil"]
              ELSE IF ~IsDir(ev.Name) THEN runTestsForFile(ev.Name)
                   ELSE IF addOk THEN [act |-> "add", path |-> ev.Name]
                        ELSE [act |-> "err", err |-> "error removing watch on"]
    ELSE IF ev.Op = "WRITE" THEN runTestsForFile(ev.Name)
         ELSE [act |-> "nil"]

\* handleEvent up to the first call that blocks or fails: tr is the tree that
\* os.Stat sees, addOk whether watcher.Add accepts the path
handleEvent(ev, tr, addOk) ==
    IF ev.Op = "CREATE"
    THEN IF Base(ev.Name) = nVendor THEN [act |-> "nil"]
         ELSE IF ev.Name \notin tr
              THEN [act |-> "err", err |-> "failed to stat newly created file"]
              ELSE IF ~IsDir(ev.Name) THEN runTestsForFile(ev.Name)
                   ELSE IF addOk THEN [act |-> "add", path |-> ev.Name]
                        ELSE [act |-> "err", err |-> "error removing watch on"]
    ELSE IF ev.Op = "WRITE" THEN runTestsForFile(ev.Name)
         ELSE [act |-> "nil"]

\* a loop that reads its next event while the test process still runs
ReadEventOverlapped ==
    /\ pcMain = "running" /\ pcEv \in {"select", "run"} /\ events # <<>>
    /\ LET ev   == Head(events)
           key  == Key(ev)
           out1 == debugln(stderr, <<"watcher event:", ev.Name, ev.Op>>)
       IN  /\ events' = Tail(events)
           /\ IF Throttled(throttle, key, now)
              THEN /\ stderr' = debugln(out1, <<"skipping event, less than 800ms">>)
                   /\ handled' = Append(handled, [ev |-> ev, readAt |-> now, accepted |-> FALSE])
                   /\ UNCHANGED <<throttle, WatchSet, live, pcEv, evErr, runs>>
              ELSE /\ throttle' = Stamp(throttle, key, now)
                   /\ handled' = Append(handled, [ev |-> ev, readAt |-> now, accepted |-> TRUE])
                   /\ \E addOk \in BOOLEAN, startOk \in BOOLEAN :
                        LET r == handleEvent(ev, tree, addOk)
                        IN  CASE r.act = "nil" ->
                                   /\ stderr' = out1
                                   /\ UNCHANGED <<WatchSet, live, pcEv, evErr, runs>>
                              [] r.act = "err" ->
                                   /\ pcEv' = "done"
                                   /\ evErr' = r.err
                                   /\ stderr' = out1
                                   /\ UNCHANGED <<WatchSet, live, runs>>
                              [] r.act = "add" ->
                                   /\ WatchSet' = WatchSet \cup {r.path}
                                   /\ live' = live \cup {r.path}
                                   /\ stderr' = debugln(out1, <<"Adding watch:", r.path>>)
                                   /\ UNCHANGED <<pcEv, evErr, runs>>
                              [] r.act = "test" ->
                                   /\ runs' = Append(runs, GoTest(r.dir))
                                   /\ stderr' = debugln(out1, <<"running: go", GoTestArgs>>)
                                   /\ IF startOk
                                      THEN pcEv' = "run" /\ UNCHANGED evErr
                                      ELSE pcEv' = "done" /\ evErr' = "exec: not started"
                                   /\ UNCHANGED <<WatchSet, live>>
    /\ UNCHANGED <<tree, fsOps, confVars, pcMain, exitCode, pcEnter, enterErr, now, manual, lines>>

\* one turn of handleEvents' loop on the event at the head of watcher.Events,
\* up to the next select, the return, or the start of the test process
ReadEvent ==
    /\ pcMain = "running" /\ pcEv = "select" /\ events # <<>>
    /\ LET ev   == Head(events)
           key  == Key(ev)
           out1 == debugln(stderr, <<"watcher event:", ev.Name, ev.Op>>)
       IN  /\ events' = Tail(events)
           /\ IF Throttled(throttle, key, now)
              THEN /\ stderr' = debugln(out1, <<"skipping event, less than 800ms">>)
                   /\ handled' = Append(handled, [ev |-> ev, readAt |-> now, accepted |-> FALSE])
                   /\ UNCHANGED <<throttle, WatchSet, live, pcEv, evErr, runs>>
              ELSE /\ throttle' = Stamp(throttle, key, now)
                   /\ handled' = Append(handled, [ev |-> ev, readAt |-> now, accepted |-> TRUE])
                   /\ \E addOk \in BOOLEAN, startOk \in BOOLEAN :
                        LET r == handleEvent(ev, tree, addOk)
                        IN  CASE r.act = "nil" ->
                                   /\ stderr' = out1
                                   /\ UNCHANGED <<WatchSet, live, pcEv, evErr, runs>>
                              [] r.act = "err" ->
                                   /\ pcEv' = "done"
                                   /\ evErr' = r.err
                                   /\ stderr' = out1
                                   /\ UNCHANGED <<WatchSet, live, runs>>
                              [] r.act = "add" ->
                                   /\ WatchSet' = WatchSet \cup {r.path}
                                   /\ live' = live \cup {r.path}
                                   /\ stderr' = debugln(out1, <<"Adding watch:", r.path>>)
                                   /\ UNCHANGED <<pcEv, evErr, runs>>
                              [] r.act = "test" ->
                                   /\ runs' = Append(runs, GoTest(r.dir))
                                   /\ stderr' = debugln(out1, <<"running: go", GoTestArgs>>)
                                   /\ IF startOk
                                      THEN pcEv' = "run" /\ UNCHANGED evErr
                                      ELSE pcEv' = "done" /\ evErr' = "exec: not started"
                                   /\ UNCHANGED <<WatchSet, live>>
    /\ UNCHANGED <<tree, fsOps, confVars, pcMain, exitCode, pcEnter, enterErr, now, manual, lines>>

\* cmd.Run returns in the event loop: handleEvent returns what it returned, and
\* handleEvents returns it too unless it is nil
EvTestExit ==
    /\ pcMain = "running" /\ pcEv = "run"
    /\ \E code \in {0, 1} :
         IF RunResult(code) = "nil"
         THEN pcEv' = "select" /\ UNCHANGED evErr
         ELSE pcEv' = "done" /\ evErr' = RunResult(code)
    /\ UNCHANGED <<envVars, confVars, pcMain, exitCode, WatchSet, throttle, pcEnter, enterErr, now,
                   stderr, handled, runs, manual, lines>>

\* an error arrives on watcher.Errors while handleEvents waits in its select
\* (the nil of a closed channel can arrive only after main has closed the
\* watcher, when the process ends)
WatcherError ==
    /\ pcMain = "running" /\ pcEv = "select"
    /\ pcEv' = "done"
    /\ evErr' = "watcher error"
    /\ stderr' = debugln(stderr, <<"watching error:", "watcher error">>)
    /\ UNCHANGED <<envVars, confVars, pcMain, exitCode, WatchSet, throttle, pcEnter, enterErr, now,
                   handled, runs, manual, lines>>

\* --------------------------------------------------------------- handleEnter
\* a manual run in the directory of the last changed file
EnterDirLastChanged ==
    IF handled = <<>> THEN wd ELSE Dir(handled[Len(handled)].ev.Name)

\* the directory of a manually triggered run
EnterDir == wd

\* a handleEnter that debounces its lines in the throttle map of handleEvents
EnterLineThrottled ==
    /\ pcMain = "running" /\ pcEnter = "scan" /\ lines < MaxLines
    /\ lines' = lines + 1
    /\ IF Throttled(throttle, <<<<"stdin">>, ":", "LINE">>, now)
       THEN UNCHANGED <<throttle, manual, pcEnter, stderr>>
       ELSE /\ throttle' = Stamp(throttle, <<<<"stdin">>, ":", "LINE">>, now)
            /\ manual' = Append(manual, GoTest(EnterDir))
            /\ pcEnter' = "run"
            /\ stderr' = debugln(stderr, <<"running: go", GoTestArgs>>)
    /\ UNCHANGED <<envVars, confVars, pcMain, exitCode, WatchSet, pcEv, evErr, enterErr,
                   now, handled, runs>>

\* scanner.Scan returns a line: runTestsForDir(wd) up to the start of the process
EnterLine ==
    /\ pcMain = "running" /\ pcEnter = "scan" /\ lines < MaxLines
    /\ \E text \in LineChoices, startOk \in BOOLEAN :
         /\ lines' = lines + 1
         /\ manual' = Append(manual, GoTest(EnterDir))
         /\ IF startOk
            THEN /\ pcEnter' = "run"
                 /\ stderr' = debugln(stderr, <<"running: go", GoTestArgs>>)
                 /\ UNCHANGED enterErr
            ELSE /\ pcEnter' = "scan"
                 /\ enterErr' = "exec: not started"
                 /\ stderr' = debugln(stderr, <<"running: go", GoTestArgs>>)
                                \cup {<<"error running go test", "exec: not started">>}
    /\ UNCHANGED <<envVars, confVars, pcMain, exitCode, WatchSet, throttle, pcEv, evErr,
                   now, handled, runs>>

\* a handleEnter that returns at the first failed run
EnterTestExitFatal ==
    /\ pcMain = "running" /\ pcEnter = "run"
    /\ \E code \in {0, 1} :
         /\ pcEnter' = IF RunResult(code) = "nil" THEN "scan" ELSE "done"
         /\ enterErr' = RunResult(code)
         /\ stderr' = IF RunResult(code) = "nil" THEN stderr
                      ELSE stderr \cup {<<"error running go test", RunResult(code)>>}
    /\ UNCHANGED <<envVars, confVars, pcMain, exitCode, WatchSet, throttle, pcEv, evErr,
                   now, handled, runs, manual, lines>>

\* cmd.Run returns in handleEnter
EnterTestExit ==
    /\ pcMain = "running" /\ pcEnter = "run"
    /\ \E code \in {0, 1} :
         /\ pcEnter' = "scan"
         /\ enterErr' = RunResult(code)
         /\ stderr' = IF RunResult(code) = "nil" THEN stderr
                      ELSE stderr \cup {<<"error running go test", RunResult(code)>>}
    /\ UNCHANGED <<envVars, confVars, pcMain, exitCode, WatchSet, throttle, pcEv, evErr,
                   now, handled, runs, manual, lines>>

\* scanner.Scan returns false: os.Stdin is at its end
EnterEOF ==
    /\ pcMain = "running" /\ pcEnter = "scan"
    /\ pcEnter' = "done"
    /\ UNCHANGED <<envVars, confVars, pcMain, exitCode, WatchSet, throttle, pcEv, evErr,
                   enterErr, now, stderr, handled, runs, manual, lines>>

\* ---------------------------------------------------------------------- main
\* a signal arrives: main prints, closes the watcher and returns; the process
\* ends, and with it its goroutines, its memory and its watches
Signal ==
    /\ pcMain = "running"
    /\ pcMain' = "exited"
    /\ \E closeOk \in BOOLEAN :
         IF closeOk
         THEN exitCode' = 0 /\ stderr' = stderr \cup {<<"Exiting">>}
         ELSE exitCode' = 1 /\ stderr' = stderr \cup {<<"Exiting">>, <<"close error">>}
    /\ pcEv' = "off" /\ pcEnter' = "off"
    /\ UNCHANGED enterErr
    /\ WatchSet' = {} /\ live' = {} /\ events' = <<>>
    /\ throttle' = [k \in {} |-> 0]
    /\ UNCHANGED <<tree, fsOps, confVars, evErr, now, handled, runs, manual, lines>>

\* the whole program; the tree changes at the paths of ChangedPaths
ChangedPaths == {pA, pXGo}

Next ==
    \/ Startup
    \/ \E p \in ChangedPaths : FsCreate(p, MaxFsOps)
    \/ \E p \in ChangedPaths : FsWrite(p, MaxFsOps)
    \/ \E p \in ChangedPaths, op \in {"REMOVE", "RENAME"} : FsRemove(p, op, MaxFsOps)
    \/ \E p \in ChangedPaths : FsChmod(p, MaxFsOps)
    \/ Tick
    \/ ReadEvent
    \/ EvTestExit
    \/ WatcherError
    \/ EnterLine
    \/ EnterTestExit
    \/ EnterEOF
    \/ Signal

Spec == Init /\ [][Next]_vars

\* the runs in which nobody types a line and no signal or watcher error arrives,
\* with one more change of the tree: entries are created and written at any
\* path, removed, renamed and chmod-ed at the paths of ChangedPaths; a vendor
\* directory can be removed too
NextEvents ==
    \/ Startup
    \/ \E p \in AllPaths : FsCreate(p, MaxEvOps)
    \/ \E p \in AllPaths : FsWrite(p, MaxEvOps)
    \/ \E p \in ChangedPaths, op \in {"REMOVE", "RENAME"} : FsRemove(p, op, MaxEvOps)
    \/ FsRemove(pVendor, "REMOVE", MaxEvOps)
    \/ \E p \in ChangedPaths : FsChmod(p, MaxEvOps)
    \/ Tick
    \/ ReadEvent
    \/ EvTestExit

SpecEvents == Init /\ [][NextEvents]_vars

\* ===================================================================== claims
Last(s) == s[Len(s)]

\* the events read so far with the key of event ev
SameKey(i, j) == Key(handled[i].ev) = Key(handled[j].ev)

\* a step of ReadEvent, and one that accepts the event it reads
ReadStep   == pcMain = "running" /\ pcEv = "select" /\ events # <<>>
                /\ Len(handled') = Len(handled) + 1
AcceptStep == ReadStep /\ Last(handled').accepted

\* a path with a component named vendor below the root
HasVendor(path) == \E k \in 2..Len(path) : path[k] = nVendor

\* ---- C1
\* C1 as stated, in the reading that asks least of the first event: of two
\* events with the same key that arrive less than 800 ms apart, the second is
\* not dispatched.
C1_AsClaimed ==
    \A i, j \in DOMAIN handled :
        (i < j /\ SameKey(i, j) /\ handled[j].ev.at - handled[i].ev.at < Threshold)
            => ~handled[j].accepted

\* C1 amended: an event that is read less than 800 ms after an accepted event
\* with the same key was read is dropped: it is not dispatched, nothing is
\* inspected, no watch is added, no test is run, the throttle map is unchanged.
C1_Debounce ==
    [][ (/\ ReadStep
         /\ \E i \in DOMAIN handled :
               /\ handled[i].accepted
               /\ Key(handled[i].ev) = Key(Head(events))
               /\ now - handled[i].readAt < Threshold)
        => (/\ ~Last(handled').accepted
            /\ UNCHANGED <<WatchSet, live, runs, pcEv, evErr, throttle>>) ]_vars

C1_Witness ==
    \E i, j \in DOMAIN handled :
        /\ i < j /\ SameKey(i, j)
        /\ handled[i].accepted /\ ~handled[j].accepted
        /\ handled[j].ev.at > handled[i].ev.at
        /\ runs # <<>>

\* ---- C2
\* C2 as stated, in the reading that asks least of the first event: of two
\* events with the same key that arrive 800 ms or more apart, the second is
\* dispatched when the first was.
C2_AsClaimed ==
    \A i, j \in DOMAIN handled :
        (/\ i < j /\ SameKey(i, j) /\ handled[i].accepted
         /\ handled[j].ev.at - handled[i].ev.at >= Threshold)
            => handled[j].accepted

\* C2 amended: an event read 800 ms or more after every accepted earlier event
\* with its key was read (there being one) is accepted too; exactly 800 ms is
\* enough.
C2_Accept ==
    \A j \in DOMAIN handled :
        (/\ \E i \in 1..(j - 1) : SameKey(i, j) /\ handled[i].accepted
         /\ \A i \in 1..(j - 1) :
               (SameKey(i, j) /\ handled[i].accepted)
                   => handled[j].readAt - handled[i].readAt >= Threshold)
            => handled[j].accepted

C2_Witness ==
    \E i, j \in DOMAIN handled :
        /\ i < j /\ SameKey(i, j)
        /\ handled[i].accepted /\ handled[j].accepted
        /\ handled[j].readAt - handled[i].readAt = Threshold

\* ---- C3
\* C3: no directory named vendor or below a directory named vendor is watched,
\* and no test is run in one.
C3_VendorExcluded ==
    /\ \A p \in WatchSet : ~HasVendor(p)
    /\ \A k \in DOMAIN runs : ~HasVendor(runs[k].dir)

\* ---- C4
\* C4: when the test process of the event loop has run and exited, with any
\* status, handleEvents goes on to its next select and has returned no error.
C4_ExitStatusIgnored ==
    [][ (pcEv = "run" /\ pcEv' # "run" /\ pcMain' = "running")
        => (pcEv' = "select" /\ evErr' = "none") ]_vars

\* ---- C5
\* an event that handleEvent passes to runTestsForFile
ReachesInvoker(ev) ==
    \/ ev.Op = "WRITE"
    \/ ev.Op = "CREATE" /\ Base(ev.Name) # nVendor /\ ev.Name \in tree /\ ~IsDir(ev.Name)

\* C5: an accepted event that reaches the test invoker on a path with extension
\* .go runs exactly one command: `go test` followed by the extra arguments, in
\* the directory holding the path.
C5_OneInvocation ==
    [][ (AcceptStep /\ ReachesInvoker(Head(events))
                    /\ Ext(Base(Head(events).Name)) = <<".", "go">>)
        => runs' = Append(runs, [dir  |-> Dir(Head(events).Name),
                                 args |-> <<"test">> \o otherArgs]) ]_vars

C5_Witness ==
    /\ otherArgs # <<>>
    /\ Len(runs) = 2
    /\ \E i, j \in DOMAIN handled :
          /\ handled[i].accepted /\ handled[i].ev.Op = "CREATE"
          /\ handled[j].accepted /\ handled[j].ev.Op = "WRITE"
          /\ handled[i].ev.Name = pXGo /\ handled[j].ev.Name = pXGo

\* ---- C6
\* C6: an accepted Write event on a path whose extension is not .go runs no
\* test, returns no error and changes no watch; handleEvents goes on.
C6_NonGoWrite ==
    [][ (AcceptStep /\ Head(events).Op = "WRITE"
                    /\ Ext(Base(Head(events).Name)) # <<".", "go">>)
        => (/\ UNCHANGED <<runs, WatchSet, live>>
            /\ pcEv' = "select" /\ evErr' = "none") ]_vars

C6_Witness ==
    /\ pcEv = "select" /\ runs = <<>>
    /\ \E i \in DOMAIN handled :
          handled[i].accepted /\ handled[i].ev.Op = "WRITE" /\ handled[i].ev.Name = pTxt

\* ---- C7
\* path a is d or a directory above d
IsAbove(a, d) == Len(a) <= Len(d) /\ SubSeq(d, 1, Len(a)) = a

\* C7: whenever handleEvents is about to read its next event, every directory
\* of the tree outside vendor is in WatchSet, unless its Create event or that
\* of a directory above it is still waiting to be read.
C7_NewDirsWatched ==
    (pcMain = "running" /\ pcEv = "select")
        => \A d \in tree \cap DirPaths :
              (/\ ~HasVendor(d)
               /\ ~\E k \in DOMAIN events :
                      events[k].Op = "CREATE" /\ IsAbove(events[k].Name, d))
                  => d \in WatchSet

\* ---- C8
\* C8: every line read by handleEnter runs exactly one command, `go test` with
\* the extra arguments in the watch root, and nothing else is run.
C8_ManualRun ==
    [][ (lines' = lines + 1)
        => (/\ manual' = Append(manual, [dir |-> wd, args |-> <<"test">> \o otherArgs])
            /\ UNCHANGED runs) ]_vars

C8_Witness ==
    /\ manual # <<>>
    /\ handled # <<>> /\ Dir(Last(handled).ev.Name) # wd
    /\ runs # <<>>

\* ---- C9
\* a step that accepts the Create event of an entry that is gone
StatFails ==
    /\ AcceptStep
    /\ Head(events).Op = "CREATE"
    /\ Base(Head(events).Name) # nVendor
    /\ Head(events).Name \notin tree

\* C9: an error on the event path ends handleEvents and nothing else: the
\* process and handleEnter go on, and handleEvents dispatches no event and runs
\* no test after it.
C9_ErrorsEndEventLoop ==
    [][ /\ StatFails => (pcEv' = "done" /\ evErr' # "none")
        /\ (evErr' # evErr)
              => (/\ pcEv' = "done" /\ pcMain' = "running"
                  /\ UNCHANGED <<pcEnter, enterErr, manual, lines, exitCode>>)
        /\ (pcEv = "done" /\ pcMain' = "running")
              => (/\ pcEv' = "done"
                  /\ UNCHANGED <<handled, runs, WatchSet, throttle, evErr>>) ]_vars

C9_Witness ==
    /\ pcMain = "running" /\ pcEv = "done"
    /\ evErr = "failed to stat newly created file"
    /\ pcEnter = "run"
    /\ events # <<>>

\* ---- C10
\* a step in which a manually triggered run returns
ManualReturn ==
    /\ pcMain' = "running"
    /\ \/ lines' = lines + 1 /\ pcEnter' # "run"
       \/ pcEnter = "run" /\ pcEnter' # "run"

\* C10: a manual run that returns an error is reported on stderr; handleEnter
\* waits for the next line, the process runs on, the event loop is untouched.
C10_ManualErrorsNonFatal ==
    [][ (ManualReturn /\ enterErr' # "nil")
        => (/\ <<"error running go test", enterErr'>> \in stderr'
            /\ pcEnter' = "scan"
            /\ UNCHANGED <<pcEv, evErr, WatchSet, throttle, handled, runs, events>>) ]_vars

C10_Witness ==
    /\ pcEnter = "run" /\ Len(manual) = 2
    /\ enterErr = "exit status"
    /\ pcEv = "select"

\* ---- C11
\* the errors of a failed stat, a refused watch and a failed process start
FatalErrors == {"failed to stat newly created file", "error removing watch on",
                "exec: not started"}

\* C11: when handleEvents has returned one of the fatal errors, a message that
\* starts with that error is on stderr, with and without -rtest-debug.
C11_FatalErrorsPrinted ==
    (pcEv = "done" /\ evErr \in FatalErrors) => \E m \in stderr : m[1] = evErr

\* ---- C12
\* the errors initWatches returns
StartupErrors == {"failed to add watch to %s", "error occurred while walking"}

\* main has printed an error of initWatches
StartupFailed == \E m \in stderr : m[1] \in StartupErrors

\* a fault that the walk meets: a directory that cannot be listed, or a refusal
\* by the watcher of a directory it is asked to watch
MetFault(f) == f[1] # {} \/ \E d \in f[2] : Base(d) # nVendor

\* C12: with a directory that cannot be listed or that the watcher refuses,
\* initWatches returns an error; and when it has, the process has exited with
\* status 1, neither loop was started, no event was read, no test was run and
\* no watch is in use.
C12_StartupFailureExits ==
    /\ pcMain = "start"
          => \A f \in Faults(tree) :
                MetFault(f) => initWatches(tree, f[1], f[2]).err \in StartupErrors
    /\ StartupFailed
          => (/\ pcMain = "exited" /\ exitCode = 1
              /\ pcEv = "off" /\ pcEnter = "off"
              /\ handled = <<>> /\ runs = <<>> /\ manual = <<>>
              /\ WatchSet = {} /\ live = {} /\ events = <<>>)

\* the walk had added a watch before it failed
C12_Witness ==
    /\ StartupFailed
    /\ <<"Adding watch:", wd>> \in stderr
    /\ pcMain = "exited" /\ exitCode = 1

\* ---- C13
\* the trees that can be made of the paths of the model
Trees == { t \in SUBSET AllPaths : wd \in t /\ \A q \in t : q = wd \/ Dir(q) \in t }

\* the directories of a tree whose base name is not vendor
NonVendorDirs(tr) == { d \in tr \cap DirPaths : Base(d) # nVendor }

\* C13: a successful initWatches leaves in WatchSet exactly the directories of
\* the tree whose base name is not vendor, on the tree the program was started
\* on and on every other tree; no regular file is a member.
C13_ExactWatchSet ==
    [][ (pcMain = "start" /\ pcMain' = "running")
        => (/\ WatchSet' = NonVendorDirs(tree)
            /\ \A tr \in Trees :
                  initWatches(tr, {}, {}).watched = NonVendorDirs(tr)) ]_vars

C13_Witness ==
    /\ pcMain = "running" /\ fsOps = 0
    /\ {wd, pA, pPkg} \subseteq WatchSet
    /\ pVendor \notin WatchSet
    /\ WatchSet \cap FilePaths = {}
    /\ FilePaths \subseteq tree

\* ---- C14
\* C14: an accepted Create event on a path named vendor, whether the entry is
\* still there or not, adds no watch, runs no test and returns no error;
\* handleEvents goes on to its next select.
C14_VendorCreateIgnored ==
    [][ (AcceptStep /\ Head(events).Op = "CREATE" /\ Base(Head(events).Name) = nVendor)
        => (/\ UNCHANGED <<WatchSet, live, runs>>
            /\ pcEv' = "select" /\ evErr' = "none") ]_vars

\* the Create event of vendor was accepted at the time vendor was removed again
C14_Witness ==
    /\ handled # <<>> /\ Last(handled).accepted
    /\ Last(handled).ev = [Name |-> pVendor, Op |-> "CREATE", at |-> Last(handled).readAt]
    /\ pVendor \notin tree
    /\ events # <<>> /\ Head(events).Op = "REMOVE" /\ Head(events).Name = pVendor
    /\ Head(events).at = Last(handled).readAt
    /\ pcEv = "select" /\ evErr = "none" /\ pVendor \notin WatchSet

\* ---- C15
\* C15: an event is dropped only when an accepted event with the same path and
\* the same operation was read less than 800 ms before it; events with another
\* path or another operation play no part.
C15_KeysIndependent ==
    \A j \in DOMAIN handled :
        ~handled[j].accepted
            => \E i \in 1..(j - 1) :
                  /\ handled[i].accepted
                  /\ handled[i].ev.Name = handled[j].ev.Name
                  /\ handled[i].ev.Op = handled[j].ev.Op
                  /\ handled[j].readAt - handled[i].readAt < Threshold

\* a Write read at the very time the Create of the same path was accepted,
\* accepted too and dispatched
C15_Witness ==
    \E i \in DOMAIN handled :
        /\ i + 1 \in DOMAIN handled
        /\ handled[i].accepted /\ handled[i].ev.Op = "CREATE"
        /\ handled[i + 1].accepted /\ handled[i + 1].ev.Op = "WRITE"
        /\ handled[i].ev.Name = handled[i + 1].ev.Name
        /\ handled[i].readAt = handled[i + 1].readAt
        /\ Len(runs) = 2 /\ pcEv = "run"

\* ---- C16
\* events is what it was, or that with newer events behind it
Queued == Len(events') >= Len(events) /\ SubSeq(events', 1, Len(events)) = events

\* C16: while the test process of the event loop runs, no event is read: the
\* events that arrive wait in the queue and leave the run alone, nothing is
\* dispatched, and a test process is started only when none is running.
C16_Sequential ==
    [][ /\ (pcEv = "run" /\ pcMain' = "running")
              => (/\ Queued
                  /\ UNCHANGED <<handled, runs, throttle, WatchSet>>)
        /\ (pcEv = "run" /\ pcMain' = "running" /\ events' # events)
              => pcEv' = "run"
        /\ (runs' # runs)
              => (pcEv = "select" /\ Len(runs') = Len(runs) + 1) ]_vars

\* an event that arrived while the test process was running waits
C16_Witness ==
    /\ pcEv = "run" /\ Len(runs) = 1
    /\ events # <<>> /\ Head(events).at > Last(handled).readAt
    /\ now > Head(events).at

\* ---- C17
\* the accepted events among those read so far
Accepted == { i \in DOMAIN handled : handled[i].accepted }

\* C17: while the process runs, the keys of the throttle map are the keys of the
\* accepted events, and each maps to the time at which the last accepted event
\* with that key was read, whatever came of its dispatch and whatever events
\* were dropped since.
C17_ThrottleTable ==
    pcMain = "running"
        => (/\ DOMAIN throttle = { Key(handled[i].ev) : i \in Accepted }
            /\ \A i \in Accepted :
                  (\A j \in Accepted : SameKey(i, j) => j <= i)
                      => throttle[Key(handled[i].ev)] = handled[i].readAt)

\* an event dropped at a later time than the accepted one before it has not
\* moved the entry of its key, and another key is in the map
C17_Witness ==
    /\ pcMain = "running"
    /\ \E i, j \in DOMAIN handled :
          /\ i < j /\ SameKey(i, j)
          /\ handled[i].accepted /\ ~handled[j].accepted
          /\ handled[j].readAt > handled[i].readAt
          /\ throttle[Key(handled[j].ev)] = handled[i].readAt
    /\ Cardinality(DOMAIN throttle) > 1

\* ---- C18
\* the operations handleEvent has no case for
IgnoredOps == {"REMOVE", "RENAME", "CHMOD"}

\* C18: while the process runs no path leaves WatchSet; an accepted Remove,
\* Rename or Chmod event runs no test, adds and removes no watch, returns no
\* error and leaves handleEvents at its select: it writes the entry of its key
\* in the throttle map and nothing else.
C18_IgnoredEvents ==
    [][ /\ (pcMain = "running" /\ pcMain' = "running") => WatchSet \subseteq WatchSet'
        /\ (AcceptStep /\ Head(events).Op \in IgnoredOps)
              => (/\ UNCHANGED <<WatchSet, live, runs, tree>>
                  /\ pcEv' = "select" /\ evErr' = "none"
                  /\ DOMAIN throttle' = DOMAIN throttle \cup {Key(Head(events))}
                  /\ throttle'[Key(Head(events))] = now
                  /\ \A k \in DOMAIN throttle :
                        k # Key(Head(events)) => throttle'[k] = throttle[k]) ]_vars

\* the Remove event of a watched directory was accepted: the directory is gone
\* and still in WatchSet
C18_Witness ==
    /\ pcMain = "running" /\ pcEv = "select" /\ evErr = "none"
    /\ \E d \in WatchSet :
          /\ d \notin tree
          /\ handled # <<>> /\ Last(handled).accepted
          /\ Last(handled).ev.Op = "REMOVE" /\ Last(handled).ev.Name = d

\* ---- C19
\* C19: an event is dropped exactly when it is read less than 800 ms after an
\* accepted event with its key was read, whenever the two arrived; and when an
\* accepted event starts a test process, the entry of its key already holds the
\* time of that reading.
C19_ReadTime ==
    [][ /\ ReadStep
              => (Last(handled').accepted
                    <=> ~\E i \in Accepted :
                           /\ Key(handled[i].ev) = Key(Head(events))
                           /\ now - handled[i].readAt < Threshold)
        /\ (AcceptStep /\ pcEv' = "run")
              => throttle'[Key(Head(events))] = now ]_vars

\* a duplicate that arrived during a test run of 800 ms, less than 800 ms after
\* the first, was read after the run and has started a second run
C19_Witness ==
    \E i, j \in DOMAIN handled :
        /\ i < j /\ SameKey(i, j)
        /\ handled[i].accepted /\ handled[j].accepted
        /\ handled[j].ev.at - handled[i].ev.at < Threshold
        /\ handled[j].ev.at > handled[i].readAt
        /\ handled[j].readAt - handled[i].readAt >= Threshold
        /\ Len(runs) = 2 /\ pcEv = "run"

\* ---- C20
\* a step of handleEnter while the process runs
EnterStep ==
    /\ pcMain = "running" /\ pcMain' = "running"
    /\ lines' # lines \/ pcEnter' # pcEnter \/ manual' # manual \/ enterErr' # enterErr

\* C20: a step of handleEnter leaves the throttle map, WatchSet, the queue of
\* events and handleEvents alone; every line starts a run, however soon after
\* the line before; each loop starts a run only when its last one has returned,
\* and a step of one loop starts no run of the other.
C20_LoopsIndependent ==
    [][ /\ EnterStep
              => UNCHANGED <<throttle, WatchSet, live, events, handled, runs, pcEv, evErr>>
        /\ (lines' = lines + 1)
              => (pcEnter = "scan" /\ Len(manual') = Len(manual) + 1)
        /\ (manual' # manual)
              => (pcEnter = "scan" /\ lines' = lines + 1 /\ UNCHANGED runs)
        /\ (runs' # runs)
              => (pcEv = "select" /\ UNCHANGED <<manual, pcEnter, lines>>) ]_vars

\* two lines typed in the same millisecond have both started a run, the second
\* while a run of the event loop is under way
C20_Witness ==
    /\ pcEv = "run" /\ pcEnter = "run"
    /\ Len(manual) = 2 /\ Len(runs) = 1
    /\ now = Last(handled).readAt
    /\ DOMAIN throttle # {}
====
